---- MODULE Spec2Model ----
(***************************************************************************)
(* Model of predict.py: a Cog predictor that splits a comma-separated      *)
(* list of image URLs, probes each URL with HEAD, downloads the reachable  *)
(* ones concurrently into a fresh temporary directory, runs ffmpeg over    *)
(* the glob <temp_dir>/frame_*.png and optionally zips the directory.      *)
(*                                                                         *)
(* Strings whose characters matter (URLs, file names, paths, the glob      *)
(* pattern) are sequences of one-character strings; fixed file names of    *)
(* the working directory and ffmpeg flags are TLA+ strings.                *)
(***************************************************************************)
EXTENDS Naturals, Sequences, FiniteSets

(***************************************************************************)
(* Bounds of the model.                                                    *)
(***************************************************************************)
\* longest URL list drawn from the whole URL pool
MaxUrls == 3
\* longest URL list made of one reachable .png URL (two-digit frame indices)
MaxFrames == 11
\* number of consecutive predict invocations in one working directory
MaxRuns == 2
\* longest URL list of repeated invocations
MaxRerunUrls == 2

(***************************************************************************)
(* Characters and strings.                                                 *)
(***************************************************************************)
\* the characters the model uses, in ASCII order
Alphabet ==
    << "*", ",", ".", "/", "0", "1", "2", "3", "4", "5", "6", "7", "8", "9",
       "_", "a", "b", "c", "d", "e", "f", "g", "h", "i", "j", "k", "l", "m",
       "n", "o", "p", "q", "r", "s", "t", "u", "v", "w", "x", "y", "z" >>

\* position of a character in the byte order
Ord(c) == CHOOSE k \in 1..Len(Alphabet) : Alphabet[k] = c

Digits == << "0", "1", "2", "3", "4", "5", "6", "7", "8", "9" >>

RECURSIVE Str(_)
\* str(n) of a non-negative int: its decimal digits, no padding
Str(n) == IF n < 10 THEN << Digits[n + 1] >>
          ELSE Str(n \div 10) \o << Digits[(n % 10) + 1] >>

\* s.rfind(c), 1-based; 0 when c does not occur
RFind(s, c) ==
    IF \E k \in 1..Len(s) : s[k] = c
    THEN CHOOSE k \in 1..Len(s) : s[k] = c /\ \A m \in (k + 1)..Len(s) : s[m] # c
    ELSE 0

\* s[a..b] (1-based, inclusive), empty when a > b
Slice(s, a, b) == [k \in 1..(IF b >= a THEN b - a + 1 ELSE 0) |-> s[a + k - 1]]

\* byte-wise lexicographic order on strings (strict)
LexLess(a, b) ==
    \/ /\ Len(a) < Len(b)
       /\ \A k \in 1..Len(a) : a[k] = b[k]
    \/ \E k \in 1..Len(a) :
          /\ k <= Len(b)
          /\ \A m \in 1..(k - 1) : a[m] = b[m]
          /\ Ord(a[k]) < Ord(b[k])

RECURSIVE Split(_, _)
\* s.split(sep): the pieces between separators, empty pieces kept
Split(s, sep) ==
    IF \E k \in 1..Len(s) : s[k] = sep
    THEN LET k == CHOOSE j \in 1..Len(s) :
                      s[j] = sep /\ \A m \in 1..(j - 1) : s[m] # sep
         IN << Slice(s, 1, k - 1) >> \o Split(Slice(s, k + 1, Len(s)), sep)
    ELSE << s >>

RECURSIVE Join(_, _)
\* sep.join(list)
Join(list, sep) ==
    IF list = << >> THEN << >>
    ELSE IF Len(list) = 1 THEN list[1]
    ELSE list[1] \o << sep >> \o Join(Tail(list), sep)

(***************************************************************************)
(* os.path                                                                 *)
(***************************************************************************)
\* the None value of a path-or-None
None == << "None" >>

\* the extension returned by os.path.splitext(p): from the last dot of the
\* last path component, unless that component has only leading dots before it
SplitextExt(p) ==
    LET sepIndex == RFind(p, "/")
        dotIndex == RFind(p, ".")
    IN IF /\ dotIndex > sepIndex
          /\ \E k \in (sepIndex + 1)..(dotIndex - 1) : p[k] # "."
       THEN Slice(p, dotIndex, Len(p))
       ELSE << >>

\* os.path.join(a, b) on POSIX
PathJoin(a, b) ==
    IF b # << >> /\ b[1] = "/" THEN b
    ELSE IF a = << >> \/ a[Len(a)] = "/" THEN a \o b
    ELSE a \o << "/" >> \o b

RECURSIVE RStripSep(_)
\* s.rstrip('/')
RStripSep(s) ==
    IF s # << >> /\ s[Len(s)] = "/" THEN RStripSep(Slice(s, 1, Len(s) - 1)) ELSE s

\* os.path.dirname(p) on POSIX, for a string p
Dirname(p) ==
    LET head == Slice(p, 1, RFind(p, "/"))
    IN IF head # << >> /\ \E k \in 1..Len(head) : head[k] # "/"
       THEN RStripSep(head)
       ELSE head

\* the path of p relative to directory d (Path.relative_to), p below d
RelativeTo(p, d) == Slice(p, Len(d) + 2, Len(p))

(***************************************************************************)
(* Inputs and the remote servers.                                          *)
(***************************************************************************)
\* h/a.png : reachable, downloads
URL_A == << "h", "/", "a", ".", "p", "n", "g" >>
\* bad.x/x : the HEAD probe fails with a client error
URL_BAD == << "b", "a", "d", ".", "x", "/", "x" >>
\* h/c.jpg : reachable, downloads
URL_C == << "h", "/", "c", ".", "j", "p", "g" >>
\* h/g.png : the HEAD probe succeeds, the GET answers 404
URL_G == << "h", "/", "g", ".", "p", "n", "g" >>

UrlPool == { URL_A, URL_BAD, URL_C, URL_G }

\* URL lists of length 1..MaxUrls over the pool
ShortLists == UNION { [1..n -> UrlPool] : n \in 1..MaxUrls }

\* the image_urls strings predict is called with; the empty string is one
InputStrings == { << >> } \cup { Join(l, ",") : l \in ShortLists }

\* the image_urls strings of repeated invocations: up to MaxRerunUrls URLs
RerunInputStrings ==
    { << >> } \cup { Join(l, ",") : l \in { m \in ShortLists : Len(m) <= MaxRerunUrls } }

\* n times the reachable .png URL, n up to MaxFrames (n = 0: the empty string)
LongInputStrings == { Join([k \in 1..n |-> URL_A], ",") : n \in 0..MaxFrames }

\* frame rates predict is called with
FpsPool == { 4 }

\* what session.head(url) followed by raise_for_status() meets
HeadResponse(url) ==
    IF url = << >> THEN "InvalidURL"
    ELSE IF url = URL_BAD THEN "ClientConnectorError"
    ELSE "200"

\* what session.get(url) followed by raise_for_status() meets
GetResponse(url) == IF url = URL_G THEN "404" ELSE "200"

\* the bytes a server answers a GET with, named after the URL
Body(url) == url

\* the outcomes that are aiohttp.ClientError subclasses
IsClientError(resp) ==
    resp \in { "InvalidURL", "ClientConnectorError", "404", "ClientPayloadError" }

\* a probe ends as the server decides or, where the network can fail and for
\* a URL that reaches it, in the session's total timeout
\* (asyncio.TimeoutError, no ClientError)
HeadOutcomes(url, can_fail) ==
    IF url = << >> \/ ~can_fail THEN { HeadResponse(url) }
    ELSE { HeadResponse(url), "TimeoutError" }

\* how awaiting session.get(url) and raise_for_status() can end
GetOutcomes(url, can_fail) ==
    IF can_fail THEN { GetResponse(url), "TimeoutError" } ELSE { GetResponse(url) }

\* how awaiting response.read() can end: with the body; in the session's
\* total timeout; or the download breaks off (aiohttp.ClientPayloadError, a
\* ClientError)
ReadOutcomes(can_fail) ==
    IF can_fail THEN { "ok", "TimeoutError", "ClientPayloadError" } ELSE { "ok" }

\* opening a file for writing and writing it: both succeed; open raises
\* OSError and no file is made; open has made the file and the write raises
\* OSError, which leaves the file with a part of the data
WriteOutcomes == { "ok", "OSError", "OSError_partial" }

\* how building the archive can end: as writing inputs.zip does; or a file
\* of the scratch directory cannot be opened for reading; or the scratch
\* directory cannot be listed, which Path.rglob passes over in silence: it
\* yields nothing
ZipOutcomes == WriteOutcomes \cup { "OSError_source", "no_listing" }

\* the archives ZipFile's close leaves when zipf.write has raised on a file
\* it could not read: the members written before that file, which are some
\* but not all of entries (the order of rglob is the directory's)
WrittenSoFar(entries) ==
    { [arcname \in S |-> entries[arcname]] :
        S \in (SUBSET DOMAIN entries) \ { DOMAIN entries } }

\* how writing the frame file can end; open(temp_file_path, "wb") can also
\* reject the path with ValueError
SaveOutcomes(can_fail) ==
    IF can_fail THEN WriteOutcomes \cup { "ValueError" } ELSE { "ok" }

\* how the part of download_and_save_image after the GET can end: as the
\* read does if the read fails, else as saving the frame file does
ReadAndSaveOutcomes(can_fail) ==
    (ReadOutcomes(can_fail) \ { "ok" }) \cup SaveOutcomes(can_fail)

\* the exception an outcome stands for, "" if none
ExceptionOf(outcome) ==
    IF outcome \in { "ok", "200" } \/ IsClientError(outcome) THEN ""
    ELSE IF outcome \in { "OSError_partial", "OSError_source" } THEN "OSError"
    ELSE outcome

\* the lengths at which a failed write is taken to cut a file off
PartialLengths == { 0, 3 }

\* the parts of data a failed write can leave in the file
Partial(data) == { Slice(data, 1, n) : n \in { m \in PartialLengths : m < Len(data) } }

(***************************************************************************)
(* Files.                                                                  *)
(***************************************************************************)
\* a file system is a set of [path, data] with distinct paths
WriteFile(fs, path, data) ==
    { f \in fs : f.path # path } \cup { [path |-> path, data |-> data] }

Paths(fs) == { f.path : f \in fs }

DataAt(fs, path) == (CHOOSE f \in fs : f.path = path).data

RECURSIVE GlobMatch(_, _)
\* glob(3) match of string s against a pattern whose only wildcard is "*",
\* which matches any run of characters other than "/"
GlobMatch(pat, s) ==
    IF pat = << >> THEN s = << >>
    ELSE IF Head(pat) = "*"
         THEN \/ GlobMatch(Tail(pat), s)
              \/ s # << >> /\ Head(s) # "/" /\ GlobMatch(pat, Tail(s))
    ELSE s # << >> /\ Head(s) = Head(pat) /\ GlobMatch(Tail(pat), Tail(s))

RECURSIVE SortedSeq(_)
\* the strings of a set in ascending byte order
SortedSeq(S) ==
    IF S = {} THEN << >>
    ELSE LET m == CHOOSE x \in S : \A y \in S : x = y \/ LexLess(x, y)
         IN << m >> \o SortedSeq(S \ { m })

\* the files ffmpeg's "-pattern_type glob" input reads, in the order it reads them
GlobFiles(pattern, fs) == SortedSeq({ p \in Paths(fs) : GlobMatch(pattern, p) })

\* a file of the working directory
Absent == [exists |-> FALSE, run |-> 0, complete |-> FALSE, content |-> << >>]

WorkFiles == { "animated.gif", "animated.mp4", "inputs.zip" }

\* RemoveIfExists with the removal forgotten: the file is left in place
KeepIfExists(dir, name) == dir

\* if os.path.exists(name): os.remove(name)
RemoveIfExists(dir, name) == [dir EXCEPT ![name] = Absent]

(***************************************************************************)
(* The pure parts of predict.py.                                           *)
(***************************************************************************)
FramePrefix == << "f", "r", "a", "m", "e", "_" >>

\* f"frame_{frame_number}{file_extension}"
FrameFileName(url, frame_number) ==
    FramePrefix \o Str(frame_number) \o SplitextExt(url)

\* temp_file_path of download_and_save_image
FramePath(url, temp_dir, frame_number) ==
    PathJoin(temp_dir, FrameFileName(url, frame_number))

\* NewTask with enumerate applied after the filter: frames numbered by their
\* position among the validated URLs
NewTaskRenumbered(tasks, index, url) ==
    [frame_number |-> Len(tasks), url |-> url, state |-> "created", result |-> None]

\* the coroutine the comprehension of save_images creates for the URL at
\* 0-based position index of the input list, tasks being those created so far
NewTask(tasks, index, url) ==
    [frame_number |-> index, url |-> url, state |-> "created", result |-> None]

\* the value None where a list is expected: save_images returns (None, None)
NoneList == << << >> >>

\* the list asyncio.gather returns: the result of every coroutine, in the
\* order the coroutines were passed
GatherResults(coros) == [k \in 1..Len(coros) |-> coros[k].result]

\* "if saved_images and temp_dir"
HasFrames(images, dir) ==
    images \notin { NoneList, << >> } /\ dir \notin { None, << >> }

\* "animated.mp4" if mp4 else "animated.gif"
OutputFilename(is_mp4) == IF is_mp4 THEN "animated.mp4" ELSE "animated.gif"

\* WantsZip with the flag ignored: the archive is always built
WantsZipAlways(zip_flag) == TRUE

\* "if output_zip"
WantsZip(zip_flag) == zip_flag

\* the exception create_animated_media raises before it reaches ffmpeg: it
\* catches CalledProcessError only, so images[0] on an empty list and
\* os.path.dirname(None) propagate
AssembleError(images) ==
    IF images = << >> THEN "IndexError"
    ELSE IF images[1] = None THEN "TypeError"
    ELSE ""

\* the input pattern handed to ffmpeg
GlobPattern(images) ==
    PathJoin(Dirname(images[1]), FramePrefix \o << "*", ".", "p", "n", "g" >>)

\* the argument vector of the ffmpeg command
Command(images, output_filename, rate, is_mp4) ==
    << "ffmpeg", "-r", Str(rate), "-pattern_type", "glob", "-i", GlobPattern(images) >>
    \o (IF is_mp4
        THEN << "-pix_fmt", "yuv420p", "-c:v", "libx264",
                "-movflags", "faststart", "-qp", "17" >>
        ELSE << "-pix_fmt", "rgb8" >>)
    \o << output_filename >>

\* how an ffmpeg run over the given input files can end: the binary cannot be
\* started; it exits 0 with the output written; it exits non-zero with no
\* output or with a truncated one.  Without input files it cannot succeed.
EncoderOutcomes(inputs) ==
    IF inputs = << >> THEN { "spawn_failed", "exit_1" }
    ELSE { "spawn_failed", "exit_0", "exit_1", "exit_1_partial" }

\* how create_animated_media ends for an outcome of subprocess.check_output:
\* exit 0 returns output_filename; CalledProcessError (a non-zero exit) is
\* caught and None returned; the OSError of a failed spawn is not caught
AssembleResult(outcome, output_filename) ==
    IF outcome = "exit_0" THEN output_filename
    ELSE IF outcome = "spawn_failed" THEN "raise FileNotFoundError"
    ELSE "None"

\* the archive zip.write builds for Path(temp_dir).rglob: one member per
\* file below temp_dir, named by its path relative to temp_dir.  rglob yields
\* the files in the directory order of the file system, which is no function
\* of the names or of the order of creation; the archive is the function
\* from member name to bytes, which that order does not change.
ZipEntries(dir, fs) ==
    LET below == { p \in Paths(fs) : Slice(p, 1, Len(dir) + 1) = dir \o << "/" >> }
    IN [arcname \in { RelativeTo(p, dir) : p \in below } |->
          DataAt(fs, PathJoin(dir, arcname))]

\* tempfile.mkdtemp(): a directory that does not exist yet
MkDTemp(existing) == << "/", "t" >> \o Str(Cardinality(existing) + 1)

(***************************************************************************)
(* State.                                                                  *)
(***************************************************************************)
VARIABLES
    image_urls,     \* predict's image_urls argument
    mp4,            \* predict's mp4 argument
    fps,            \* predict's fps argument
    output_zip,     \* predict's output_zip argument
    run,            \* number of the current invocation
    pc,             \* where the current invocation is
    url_list,       \* image_urls.split(',')
    i,              \* number of URLs the comprehension has probed
    tasks,          \* the download coroutines, in creation order
    temp_dir,       \* the scratch directory of this invocation
    dirs,           \* the temporary directories that exist
    scratch,        \* the files below temp_dir
    saved_images,   \* what save_images returned
    cwd,            \* the files of the working directory
    ffmpeg,         \* the encoder run of this invocation
    output,         \* the Output object of this invocation
    removed,        \* the working-directory files this invocation has os.remove'd
    exception,      \* the exception on its way out of predict, "" if none
    faults          \* whether the network and the scratch file system can fail

vars == << image_urls, mp4, fps, output_zip, run, pc, url_list, i, tasks, temp_dir,
           dirs, scratch, saved_images, cwd, ffmpeg, output, removed, exception,
           faults >>

inputs == << image_urls, mp4, fps, output_zip, faults >>

NotRun == [argv |-> << >>, inputs |-> << >>, status |-> "not_run", result |-> "None"]

NoOutput == [video |-> "None", zip |-> "None"]

\* the state at the first call of predict, its image_urls drawn from strings
\* the reliability of network and scratch file system from envs, the mp4
\* argument from formats and the output_zip argument from archives
InitWith(strings, envs, formats, archives) ==
    /\ image_urls \in strings
    /\ faults \in envs
    /\ mp4 \in formats
    /\ fps \in FpsPool
    /\ output_zip \in archives
    /\ run = 1
    /\ pc = "start"
    /\ url_list = << >>
    /\ i = 0
    /\ tasks = << >>
    /\ temp_dir = << >>
    /\ dirs = {}
    /\ scratch = {}
    /\ saved_images = << >>
    /\ cwd = [n \in WorkFiles |-> Absent]
    /\ ffmpeg = NotRun
    /\ output = NoOutput
    /\ removed = {}
    /\ exception = ""

\* network and scratch file system can fail
Init == InitWith(InputStrings, { TRUE }, BOOLEAN, BOOLEAN)

\* the files of directory before that after no longer has
Gone(before, after) == { n \in WorkFiles : before[n].exists /\ ~after[n].exists }

\* predict raises exc
Raise(exc) == pc' = "raised" /\ exception' = exc

(***************************************************************************)
(* predict, lines 129-130, and save_images up to the comprehension.        *)
(***************************************************************************)
predict_call ==
    /\ pc = "start"
    /\ url_list' = Split(image_urls, ",")
    /\ temp_dir' = MkDTemp(dirs)
    /\ dirs' = dirs \cup { MkDTemp(dirs) }
    /\ pc' = "validate"
    /\ UNCHANGED << inputs, removed, run, i, tasks, scratch, saved_images, cwd, ffmpeg,
                    output, exception >>

(***************************************************************************)
(* One iteration of the comprehension: the probe of the next URL is        *)
(* awaited before the following URL is looked at.                          *)
(***************************************************************************)
is_valid_url ==
    /\ pc = "validate"
    /\ i < Len(url_list)
    /\ \E resp \in HeadOutcomes(url_list[i + 1], faults) :
          IF resp = "200"
          THEN /\ tasks' = Append(tasks, NewTask(tasks, i, url_list[i + 1]))
               /\ i' = i + 1
               /\ UNCHANGED << pc, exception >>
          ELSE IF IsClientError(resp)
          THEN /\ i' = i + 1
               /\ UNCHANGED << tasks, pc, exception >>
          ELSE /\ Raise(resp)
               /\ UNCHANGED << tasks, i >>
    /\ UNCHANGED << inputs, removed, run, url_list, temp_dir, dirs, scratch, saved_images,
                    cwd, ffmpeg, output >>

(***************************************************************************)
(* asyncio.gather over tasks: every coroutine is started, in order, and     *)
(* runs up to its first await, of the GET request.                         *)
(***************************************************************************)
gather_start ==
    /\ pc = "validate"
    /\ i = Len(url_list)
    /\ tasks' = [k \in 1..Len(tasks) |-> [tasks[k] EXCEPT !.state = "running"]]
    /\ pc' = "gather"
    /\ UNCHANGED << inputs, removed, run, url_list, i, temp_dir, dirs, scratch, saved_images,
                    cwd, ffmpeg, output, exception >>

\* the tasks with those still awaiting a response or a body cancelled
Cancelled(coros) ==
    [m \in 1..Len(coros) |->
       IF coros[m].state \in { "running", "reading" }
       THEN [coros[m] EXCEPT !.state = "cancelled"]
       ELSE coros[m]]

(***************************************************************************)
(* An exception that is no ClientError leaves coroutine k.  gather, called *)
(* without return_exceptions, hands the first such exception on to         *)
(* save_images, which is resumed some iterations of the event loop later;  *)
(* until then the other downloads go on.  The exception of a task that     *)
(* raises after the first is dropped.                                      *)
(***************************************************************************)
TaskRaises(k, exc) ==
    /\ tasks' = [tasks EXCEPT ![k].state = "raised"]
    /\ IF pc = "gather"
       THEN pc' = "unwinding" /\ exception' = exc
       ELSE UNCHANGED << pc, exception >>

(***************************************************************************)
(* download_and_save_image, lines 35-36: the first await of task k ends.   *)
(* The response has a success status, or raise_for_status or the transport *)
(* raises a ClientError, which the handler of line 49 turns into None, or  *)
(* the session's total timeout expires.                                    *)
(***************************************************************************)
download_and_save_image_get(k) ==
    /\ pc \in { "gather", "unwinding" }
    /\ tasks[k].state = "running"
    /\ \E resp \in GetOutcomes(tasks[k].url, faults) :
          IF resp = "200"
          THEN /\ tasks' = [tasks EXCEPT ![k].state = "reading"]
               /\ UNCHANGED << pc, exception >>
          ELSE IF IsClientError(resp)
          THEN /\ tasks' = [tasks EXCEPT ![k].state = "done", ![k].result = None]
               /\ UNCHANGED << pc, exception >>
          ELSE TaskRaises(k, ExceptionOf(resp))
    /\ UNCHANGED << inputs, removed, run, url_list, i, temp_dir, dirs, scratch,
                    saved_images, cwd, ffmpeg, output >>

(***************************************************************************)
(* download_and_save_image, lines 37-51: the second await of task k, of    *)
(* response.read(), ends, and the rest of the coroutine runs without       *)
(* another task in between: the frame file is opened and written.  A       *)
(* ClientError met while the body is read is caught at line 49: None is    *)
(* returned and nothing is written.                                        *)
(***************************************************************************)
download_and_save_image_read(k) ==
    /\ pc \in { "gather", "unwinding" }
    /\ tasks[k].state = "reading"
    /\ \E w \in ReadAndSaveOutcomes(faults) :
          LET path == FramePath(tasks[k].url, temp_dir, tasks[k].frame_number)
              image_data == Body(tasks[k].url)
          IN IF w = "ok"
             THEN /\ scratch' = WriteFile(scratch, path, image_data)
                  /\ tasks' = [tasks EXCEPT ![k].state = "done", ![k].result = path]
                  /\ UNCHANGED << pc, exception >>
             ELSE IF IsClientError(w)
             THEN /\ tasks' = [tasks EXCEPT ![k].state = "done", ![k].result = None]
                  /\ UNCHANGED << pc, exception, scratch >>
             ELSE IF w = "OSError_partial"
             THEN /\ \E part \in Partial(image_data) :
                        scratch' = WriteFile(scratch, path, part)
                  /\ TaskRaises(k, ExceptionOf(w))
             ELSE /\ TaskRaises(k, ExceptionOf(w))
                  /\ UNCHANGED scratch
    /\ UNCHANGED << inputs, removed, run, url_list, i, temp_dir, dirs, saved_images, cwd,
                    ffmpeg, output >>

(***************************************************************************)
(* save_images, lines 72-74: the exception that reached save_images is a   *)
(* ValueError; it is caught and (None, None) returned.  asyncio.run        *)
(* cancels the downloads still in flight before it returns to predict.     *)
(***************************************************************************)
save_images_except ==
    /\ pc = "unwinding"
    /\ exception = "ValueError"
    /\ tasks' = Cancelled(tasks)
    /\ saved_images' = NoneList
    /\ temp_dir' = None
    /\ exception' = ""
    /\ pc' = "fetched"
    /\ UNCHANGED << inputs, removed, run, url_list, i, dirs, scratch, cwd, ffmpeg,
                    output >>

(***************************************************************************)
(* Any other exception leaves save_images; asyncio.run cancels the         *)
(* downloads still in flight and re-raises, and predict raises.            *)
(***************************************************************************)
asyncio_run_raise ==
    /\ pc = "unwinding"
    /\ exception # "ValueError"
    /\ tasks' = Cancelled(tasks)
    /\ pc' = "raised"
    /\ UNCHANGED << inputs, removed, run, url_list, i, temp_dir, dirs, scratch,
                    saved_images, cwd, ffmpeg, output, exception >>

(***************************************************************************)
(* gather returns the results in task order; save_images returns them and  *)
(* temp_dir to predict.                                                    *)
(***************************************************************************)
gather_return ==
    /\ pc = "gather"
    /\ \A k \in 1..Len(tasks) : tasks[k].state = "done"
    /\ saved_images' = GatherResults(tasks)
    /\ pc' = "fetched"
    /\ UNCHANGED << inputs, removed, run, url_list, i, tasks, temp_dir, dirs, scratch, cwd,
                    ffmpeg, output, exception >>

(***************************************************************************)
(* predict, lines 133-134 and 148, when the condition is false.            *)
(***************************************************************************)
predict_no_frames ==
    /\ pc = "fetched"
    /\ ~HasFrames(saved_images, temp_dir)
    /\ output' = [video |-> ".", zip |-> "None"]
    /\ pc' = "done"
    /\ UNCHANGED << inputs, removed, run, url_list, i, tasks, temp_dir, dirs, scratch,
                    saved_images, cwd, ffmpeg, exception >>

(***************************************************************************)
(* predict, lines 133-137.                                                 *)
(***************************************************************************)
remove_output ==
    /\ pc = "fetched"
    /\ HasFrames(saved_images, temp_dir)
    /\ output' = [video |-> ".", zip |-> "None"]
    /\ cwd' = RemoveIfExists(cwd, OutputFilename(mp4))
    /\ removed' = removed \cup Gone(cwd, cwd')
    /\ pc' = "encode"
    /\ UNCHANGED << inputs, run, url_list, i, tasks, temp_dir, dirs, scratch,
                    saved_images, ffmpeg, exception >>

(***************************************************************************)
(* predict, lines 138-140, with the call of create_animated_media.         *)
(***************************************************************************)
create_animated_media ==
    /\ pc = "encode"
    /\ IF AssembleError(saved_images) # ""
       THEN /\ Raise(AssembleError(saved_images))
            /\ UNCHANGED << cwd, ffmpeg, output >>
       ELSE LET output_filename == OutputFilename(mp4)
                argv == Command(saved_images, output_filename, fps, mp4)
                files == GlobFiles(GlobPattern(saved_images), scratch)
            IN \E outcome \in EncoderOutcomes(files) :
                  /\ ffmpeg' = [argv |-> argv, inputs |-> files, status |-> outcome,
                                result |-> AssembleResult(outcome, output_filename)]
                  /\ cwd' = IF outcome \in { "exit_0", "exit_1_partial" }
                            THEN [cwd EXCEPT ![output_filename] =
                                    [exists |-> TRUE, run |-> run,
                                     complete |-> (outcome = "exit_0"),
                                     content |-> [k \in 1..Len(files) |->
                                                    DataAt(scratch, files[k])]]]
                            ELSE cwd
                  /\ IF outcome = "spawn_failed"
                     THEN /\ Raise("FileNotFoundError")
                          /\ UNCHANGED output
                     ELSE /\ output' = [video |-> output_filename, zip |-> "None"]
                          /\ pc' = IF WantsZip(output_zip) THEN "zip" ELSE "done"
                          /\ UNCHANGED exception
    /\ UNCHANGED << inputs, removed, run, url_list, i, tasks, temp_dir, dirs, scratch,
                    saved_images >>

(***************************************************************************)
(* predict, lines 141-143.                                                 *)
(***************************************************************************)
remove_zip ==
    /\ pc = "zip"
    /\ cwd' = RemoveIfExists(cwd, "inputs.zip")
    /\ removed' = removed \cup Gone(cwd, cwd')
    /\ pc' = "zip_write"
    /\ UNCHANGED << inputs, run, url_list, i, tasks, temp_dir, dirs, scratch,
                    saved_images, ffmpeg, output, exception >>

(***************************************************************************)
(* predict, lines 144-148: the archive is written; or ZipFile cannot       *)
(* create it; or ZipFile has created it and writing it fails, which leaves *)
(* a file that is no readable archive; or zipf.write cannot read one of    *)
(* the files, and the exit of the with-block closes the archive, which is  *)
(* then readable (complete) and holds the members written before.  The     *)
(* OSError leaves predict.  Or rglob yields no file because the scratch    *)
(* directory cannot be listed: an archive without members is written and   *)
(* predict returns it.                                                     *)
(***************************************************************************)
write_zip ==
    /\ pc = "zip_write"
    /\ \E w \in ZipOutcomes :
          IF w = "ok"
          THEN /\ cwd' = [cwd EXCEPT !["inputs.zip"] =
                            [exists |-> TRUE, run |-> run, complete |-> TRUE,
                             content |-> ZipEntries(temp_dir, scratch)]]
               /\ output' = [output EXCEPT !.zip = "inputs.zip"]
               /\ pc' = "done"
               /\ UNCHANGED exception
          ELSE IF w = "no_listing"
          THEN /\ cwd' = [cwd EXCEPT !["inputs.zip"] =
                            [exists |-> TRUE, run |-> run, complete |-> TRUE,
                             content |-> << >>]]
               /\ output' = [output EXCEPT !.zip = "inputs.zip"]
               /\ pc' = "done"
               /\ UNCHANGED exception
          ELSE IF w = "OSError_source"
          THEN /\ \E written \in WrittenSoFar(ZipEntries(temp_dir, scratch)) :
                     cwd' = [cwd EXCEPT !["inputs.zip"] =
                               [exists |-> TRUE, run |-> run, complete |-> TRUE,
                                content |-> written]]
               /\ Raise(ExceptionOf(w))
               /\ UNCHANGED output
          ELSE /\ Raise(ExceptionOf(w))
               /\ cwd' = IF w = "OSError_partial"
                         THEN [cwd EXCEPT !["inputs.zip"] =
                                 [exists |-> TRUE, run |-> run, complete |-> FALSE,
                                  content |-> << >>]]
                         ELSE cwd
               /\ UNCHANGED output
    /\ UNCHANGED << inputs, removed, run, url_list, i, tasks, temp_dir, dirs, scratch,
                    saved_images, ffmpeg >>

(***************************************************************************)
(* The caller invokes predict again, with the same arguments, in the same  *)
(* working directory.  Earlier scratch directories stay on disk; their     *)
(* files are out of reach of the new invocation and are no longer tracked. *)
(***************************************************************************)
reinvoke ==
    /\ pc \in { "done", "raised" }
    /\ run < MaxRuns
    /\ run' = run + 1
    /\ pc' = "start"
    /\ url_list' = << >>
    /\ i' = 0
    /\ tasks' = << >>
    /\ temp_dir' = << >>
    /\ scratch' = {}
    /\ saved_images' = << >>
    /\ ffmpeg' = NotRun
    /\ output' = NoOutput
    /\ removed' = {}
    /\ exception' = ""
    /\ UNCHANGED << inputs, dirs, cwd >>

\* the steps of one invocation in which no download raises
ReliableInvocation ==
    \/ predict_call
    \/ is_valid_url
    \/ gather_start
    \/ \E k \in 1..Len(tasks) : download_and_save_image_get(k)
    \/ \E k \in 1..Len(tasks) : download_and_save_image_read(k)
    \/ gather_return
    \/ predict_no_frames
    \/ remove_output
    \/ create_animated_media
    \/ remove_zip
    \/ write_zip

\* the steps of one invocation
Invocation ==
    \/ ReliableInvocation
    \/ save_images_except
    \/ asyncio_run_raise

Next == Invocation

\* one invocation on URL lists of up to MaxUrls URLs of the pool, in which
\* probes and downloads can time out and writing a frame file can fail
Spec == Init /\ [][Next]_vars

\* repeated invocations are followed where network and scratch file system
\* are reliable: the fetch stage of an invocation works in a directory of
\* its own and reads nothing an earlier invocation has left
InitRerun == InitWith(RerunInputStrings, { FALSE }, BOOLEAN, BOOLEAN)

NextRerun ==
    \/ ReliableInvocation
    \/ reinvoke

\* up to MaxRuns invocations with the same arguments in one working directory
SpecRerun == InitRerun /\ [][NextRerun]_vars

\* one invocation on up to MaxFrames reachable .png URLs, as a GIF with
\* archive, network and scratch file system reliable
InitLong == InitWith(LongInputStrings, { FALSE }, { FALSE }, { TRUE })

SpecLong == InitLong /\ [][ReliableInvocation]_vars

(***************************************************************************)
(* Vocabulary of the properties.                                           *)
(***************************************************************************)
\* save_images has returned the list of gather to predict in this invocation
FetchReturned ==
    /\ pc \notin { "start", "validate", "gather", "unwinding" }
    /\ i = Len(url_list)
    /\ \A k \in 1..Len(tasks) : tasks[k].state = "done"

IsPath(p) == p # None

\* the frame files of the URLs that validated and downloaded, in input order
Successful == SelectSeq(saved_images, IsPath)

\* ffmpeg was started and has exited
EncoderRan == ffmpeg.status \in { "exit_0", "exit_1", "exit_1_partial" }

\* subprocess.check_output was called
EncoderInvoked == ffmpeg.status # "not_run"

\* the 1-based input positions of the URLs whose probe answers with success,
\* in input order
ValidatedPositions ==
    LET Validates(j) == HeadResponse(url_list[j]) = "200"
    IN SelectSeq([j \in 1..Len(url_list) |-> j], Validates)

\* the 1-based positions of the input URLs that validated and whose download
\* has returned a path
GoodPositions ==
    LET v == ValidatedPositions
    IN { v[k] : k \in { m \in 1..Len(v) : m <= Len(tasks) /\ tasks[m].result # None } }

PNG == << ".", "p", "n", "g" >>

(***************************************************************************)
(* C1.  Order preservation under filtering: the files the encoder reads,   *)
(* in the byte order of the names its input glob matches, are the frame    *)
(* files of the URLs that validated and downloaded, in input order -- also *)
(* when there are more than ten frames.                                    *)
(***************************************************************************)
C1_OrderPreserved == EncoderRan => ffmpeg.inputs = Successful

(***************************************************************************)
(* C2.  Frame count: the encoder's input glob selects exactly as many      *)
(* files as URLs validated and downloaded, whatever their extensions.      *)
(***************************************************************************)
C2_FrameCount == EncoderRan => Len(ffmpeg.inputs) = Len(Successful)

(***************************************************************************)
(* C3.  As claimed: the k-th (0-based) URL that passes validation is saved *)
(* as frame_k plus its extension, so the indices on disk are consecutive.  *)
(***************************************************************************)
C3_ConsecutiveFrames ==
    FetchReturned =>
        Paths(scratch) =
            { FramePath(tasks[k].url, temp_dir, k - 1) :
                k \in { m \in 1..Len(tasks) : tasks[m].result # None } }

(***************************************************************************)
(* C3, amended.  A URL that validates and downloads is saved as frame_j    *)
(* plus its extension, j its 0-based position in the input list: the fetch *)
(* stage leaves exactly these files, each holding the body of its URL, and *)
(* a rejected URL leaves a gap in the indices.                             *)
(***************************************************************************)
C3_FramesKeepInputIndex ==
    FetchReturned =>
        scratch =
            { [path |-> temp_dir \o << "/" >> \o FramePrefix \o Str(j - 1)
                          \o SplitextExt(url_list[j]),
               data |-> Body(url_list[j])] : j \in GoodPositions }

\* [a.png, unreachable, c.jpg] has left frame_0.png and frame_2.jpg
C3_Witness ==
    /\ pc = "fetched"
    /\ url_list = << URL_A, URL_BAD, URL_C >>
    /\ Paths(scratch) =
          { temp_dir \o << "/" >> \o FramePrefix \o << "0" >> \o PNG,
            temp_dir \o << "/" >> \o FramePrefix \o << "2", ".", "j", "p", "g" >> }

(***************************************************************************)
(* C4.  Complete result or explicit failure: whenever predict returns, the *)
(* video field names a file that exists and that a zero-exit encoder run   *)
(* of this invocation produced.                                            *)
(***************************************************************************)
C4_CompleteResult ==
    pc = "done" =>
        /\ output.video \in WorkFiles
        /\ cwd[output.video].exists
        /\ cwd[output.video].run = run
        /\ cwd[output.video].complete
        /\ ffmpeg.status = "exit_0"

(***************************************************************************)
(* C5.  Zero successful frames: when the fetch stage delivers no frame --  *)
(* also when URLs validated and all their downloads failed -- predict does *)
(* not invoke the encoder, does not raise, and returns video = "." without *)
(* an archive.                                                             *)
(***************************************************************************)
C5_ZeroFramesDegenerate ==
    (FetchReturned /\ Successful = << >>) =>
        /\ pc # "raised"
        /\ ~EncoderInvoked
        /\ pc = "done" => output = [video |-> ".", zip |-> "None"]

(***************************************************************************)
(* C6.  Empty input: when no input URL passes validation (the empty string *)
(* included, which splits into one empty URL), so that the fetch stage has *)
(* no download to start, the fetch stage returns an empty list and a       *)
(* created, empty scratch directory, and predict runs to its return        *)
(* without invoking the encoder, building an archive or raising.           *)
(***************************************************************************)
C6_EmptyInput ==
    (pc \notin { "start", "validate" } /\ tasks = << >>) =>
        /\ pc \in { "gather", "fetched", "done" }
        /\ exception = ""
        /\ ~EncoderInvoked
        /\ temp_dir \in dirs
        /\ scratch = {}
        /\ removed = {}
        /\ \A n \in WorkFiles : cwd[n].run # run
        /\ pc \in { "fetched", "done" } => saved_images = << >>
        /\ pc = "done" => output = [video |-> ".", zip |-> "None"]
        /\ pc # "done" => ENABLED Invocation

(***************************************************************************)
(* C7.  Partial download failure is non-fatal at every position: when some *)
(* validated URLs download and others fail, predict invokes the encoder    *)
(* before it ends.                                                         *)
(***************************************************************************)
C7_PartialFailureNonFatal ==
    ( /\ pc \in { "done", "raised" }
      /\ FetchReturned
      /\ Successful # << >>
      /\ \E k \in 1..Len(saved_images) : saved_images[k] = None )
    => EncoderInvoked

(***************************************************************************)
(* C8.  Archive presence: a returned result has its zip field set only if  *)
(* output_zip is true and at least one frame was downloaded.               *)
(***************************************************************************)
C8_ArchivePresence ==
    (pc = "done" /\ output.zip # "None") =>
        /\ output_zip
        /\ Successful # << >>
        /\ scratch # {}

\* a result with the archive
C8_Witness == pc = "done" /\ output.zip = "inputs.zip" /\ output_zip

C10_OverwriteOnRerun ==
    run >= 2 =>
        /\ pc = "encode" => ~cwd[OutputFilename(mp4)].exists
        /\ pc = "zip_write" => ~cwd["inputs.zip"].exists
        /\ pc = "done" =>
              \A n \in { output.video, output.zip } \cap WorkFiles :
                  cwd[n].exists => cwd[n].run = run

\* the second invocation removed both leftovers and wrote both files anew
C10_Witness ==
    /\ run = 2
    /\ pc = "done"
    /\ removed = { OutputFilename(mp4), "inputs.zip" }
    /\ output = [video |-> OutputFilename(mp4), zip |-> "inputs.zip"]
    /\ cwd[output.video].exists /\ cwd[output.video].run = 2
    /\ cwd[output.zip].exists /\ cwd[output.zip].run = 2

(***************************************************************************)
(* C11.  Scratch-area lifetime: when an invocation has completed with      *)
(* archiving not requested, its scratch directory has been destroyed; when *)
(* archiving is requested the directory exists at the moment the archive   *)
(* is built.                                                               *)
(***************************************************************************)
C11_ScratchLifetime ==
    /\ (pc = "done" /\ ~output_zip) => temp_dir \notin dirs
    /\ pc = "zip_write" => temp_dir \in dirs

(***************************************************************************)
(* C12.  Archive-build failure is confined to the archive: once the        *)
(* encoder has produced the primary media, a failure while inputs.zip is   *)
(* created or written does not make predict raise.                         *)
(***************************************************************************)
C12_ArchiveFailureConfined ==
    (ffmpeg.status = "exit_0" /\ output.video = OutputFilename(mp4)) => pc # "raised"

(***************************************************************************)
(* C13.  Orchestrator result sequence: once every probe has returned and   *)
(* control has left the fetch stage, whatever the order in which the       *)
(* downloads completed, save_images has returned a list with one entry per *)
(* URL that passed validation, in input order; the entry of a URL whose    *)
(* download failed, so that no frame file was written, is None, at that    *)
(* URL's position, and the entry of a URL whose download succeeded is the  *)
(* path of the frame file that holds its body.                             *)
(***************************************************************************)
C13_ResultSequence ==
    (pc \notin { "start", "validate", "gather", "unwinding" } /\ i = Len(url_list)) =>
        LET v == ValidatedPositions
        IN /\ Len(saved_images) = Len(v)
           /\ \A k \in 1..Len(v) :
                 LET url == url_list[v[k]]
                     path == FramePath(url, temp_dir, v[k] - 1)
                 IN /\ GetResponse(url) # "200" => saved_images[k] = None
                    /\ IF path \in Paths(scratch)
                       THEN /\ saved_images[k] = path
                            /\ DataAt(scratch, path) = Body(url)
                       ELSE saved_images[k] = None

\* the download of task k has been started
Started(k) == tasks[k].state # "created"

(***************************************************************************)
(* C14.  Per-URL concurrency of validate+fetch: every URL's               *)
(* validate-then-download is a task of its own, so the download of a URL   *)
(* that has validated can start while later URLs of the list are not yet   *)
(* validated.                                                              *)
(***************************************************************************)
C14_PerUrlTasks ==
    (pc = "validate" /\ i < Len(url_list) /\ tasks # << >>) =>
        ENABLED (\E k \in 1..Len(tasks) : download_and_save_image_get(k))

(***************************************************************************)
(* C15.  Join barrier: once control has left the fetch stage, by           *)
(* save_images returning to predict or raising into it, every download     *)
(* that was started has completed or failed, however any task ended.       *)
(***************************************************************************)
C15_JoinBarrier ==
    pc \notin { "start", "validate", "gather", "unwinding" } =>
        \A k \in 1..Len(tasks) : Started(k) => tasks[k].state \in { "done", "raised" }

\* the path task k writes to
TaskPath(k) == FramePath(tasks[k].url, temp_dir, tasks[k].frame_number)

\* the tasks whose download has succeeded
Downloaded == { k \in 1..Len(tasks) : tasks[k].result # None }

(***************************************************************************)
(* C16.  No write races: the tasks of one run start with pairwise distinct *)
(* paths to write to (as many paths as tasks), also when a URL occurs      *)
(* several times in the input; in every interleaving of the downloads no   *)
(* two tasks have written the same path, and when the fetch stage has      *)
(* ended each has written the path it started with; every successful       *)
(* download has created exactly one file, its own, holding its body, and   *)
(* after the fetch stage the number of files in the scratch directory is   *)
(* the number of successful downloads.                                     *)
(***************************************************************************)
C16_NoWriteRaces ==
    /\ (pc = "gather" /\ \A k \in 1..Len(tasks) : tasks[k].state = "running") =>
          Cardinality({ TaskPath(k) : k \in 1..Len(tasks) }) = Len(tasks)
    /\ (pc \in { "fetched", "raised" } /\ temp_dir \in dirs) =>
          \A k \in Downloaded : tasks[k].result = TaskPath(k)
    /\ \A j, k \in Downloaded : j # k => tasks[j].result # tasks[k].result
    /\ \A k \in Downloaded :
          [path |-> tasks[k].result, data |-> Body(tasks[k].url)] \in scratch
    /\ pc \notin { "gather", "unwinding" } =>
          Cardinality(scratch) = Cardinality(Downloaded)

(***************************************************************************)
(* C17.  Assembler outcome: create_animated_media, called with a list      *)
(* whose first entry is a frame path, returns the output path exactly when *)
(* the encoder exits with code zero; on a non-zero exit and on a spawn     *)
(* failure it returns None and does not raise.                             *)
(***************************************************************************)
C17_AssemblerOutcome ==
    EncoderInvoked =>
        /\ ffmpeg.result = OutputFilename(mp4) <=> ffmpeg.status = "exit_0"
        /\ ffmpeg.status # "exit_0" => ffmpeg.result = "None"

(***************************************************************************)
(* C18.  Fetcher failures are values: no call of download_and_save_image   *)
(* raises, whatever transport failure (connection error, non-success       *)
(* status, timeout) or filesystem failure it meets: it returns None, and   *)
(* so the failure of one download never aborts the fetch stage.            *)
(***************************************************************************)
C18_FetcherFailuresAreValues ==
    \A k \in 1..Len(tasks) : tasks[k].state \notin { "raised", "cancelled" }

(***************************************************************************)
(* C19.  Validation failures are data: no probe failure leaves             *)
(* is_valid_url as an exception, so the stage of the probes is never left  *)
(* before the last URL has been probed; a URL is probed once, and a        *)
(* download is created only for URLs whose probe met a success status.     *)
(***************************************************************************)
C19_ValidationFailuresAreData ==
    /\ pc = "raised" => i = Len(url_list)
    /\ \A k \in 1..Len(tasks) :
          HeadResponse(url_list[tasks[k].frame_number + 1]) = "200"
    /\ Len(tasks) <= i

\* the frame file task j writes when its download succeeds
FrameOf(j) == [path |-> TaskPath(j), data |-> Body(tasks[j].url)]

\* the tasks whose server answers the GET with success and whose download
\* has not ended in a ClientError
Answered ==
    { j \in 1..Len(tasks) :
        /\ GetResponse(tasks[j].url) = "200"
        /\ ~(tasks[j].state = "done" /\ tasks[j].result = None) }

(***************************************************************************)
(* C20.  Schedule independence: for a fixed input and fixed per-URL        *)
(* outcomes the final state does not depend on the interleaving of the     *)
(* downloads.  When save_images has returned, the scratch files, the       *)
(* returned list and the encoder's arguments are those the input and the   *)
(* servers' answers determine; when a download has raised and predict with *)
(* it, the scratch directory holds the frame of every task whose server    *)
(* answers and whose download did not raise, as it does in the             *)
(* interleaving in which the raising download is the last to end.          *)
(***************************************************************************)
C20_ScheduleIndependence ==
    /\ FetchReturned =>
          /\ scratch = { FrameOf(j) : j \in Answered }
          /\ saved_images = [j \in 1..Len(tasks) |->
                               IF j \in Answered THEN TaskPath(j) ELSE None]
    /\ EncoderInvoked =>
          ffmpeg.argv = Command([j \in 1..Len(tasks) |->
                                   IF j \in Answered THEN TaskPath(j) ELSE None],
                                OutputFilename(mp4), fps, mp4)
    /\ (pc = "raised" /\ \E k \in 1..Len(tasks) : tasks[k].state = "raised") =>
          \A j \in Answered :
              tasks[j].state # "raised" => FrameOf(j) \in scratch

====
